---- MODULE Spec2Model ----
(***************************************************************************)
(* Frame-pointer stack unwinder of absl/debugging/internal/                *)
(* stacktrace_x86-inl.h, modelled for the Linux i386 build: the one        *)
(* configuration in which every line of the file is compiled (the VDSO     *)
(* trampoline correction and the guard on the last two pages of the        *)
(* address space are i386-only).  Pointers are 32 bits wide, a word is 4   *)
(* bytes, greg_t is a signed 32-bit int.                                   *)
(*                                                                         *)
(* TLC's integers are 32 bits wide, so every address, address             *)
(* difference and frame size of the model is counted in units of           *)
(* Unit = 2 bytes: the byte address a is the number a / 2, and only even   *)
(* byte addresses exist.  A word is 2 units, an address is pointer-width   *)
(* aligned when it is even, and the address space is 0 .. 2^31 - 1.        *)
(*                                                                         *)
(* Memory is read-only during a walk.  A frame at address f holds the      *)
(* saved frame pointer in the word at f and the return address in the word *)
(* at f + 4.  A null pointer is the number 0.                              *)
(***************************************************************************)
EXTENDS Integers, Sequences, FiniteSets, TLC

\* ------------------------------------------------------------ constants

\* Bytes per address unit.
Unit == 2
\* sizeof(void *) on i386, in bytes and in units.
WordBytes == 4
Word == WordBytes \div Unit
\* INT_MAX + 1 bytes, in units: half the address space.
IntHalf == 2^30
kMaxBytes == 10
kMaxFrameBytes == 100000
MaxFrame == kMaxFrameBytes \div Unit
kMaxUnwind == 1000
\* 0xffffe000 / Unit: start of the last two pages of the address space.
kTopPages == 2147479552

\* ------------------------------------------------------------ bounds

MaxDepth == 2
MaxSkip == 1

\* ------------------------------------------------------------ addresses

\* __builtin_frame_address(0): the frame the walk starts at.
FrameAddress0 == 2048
F0 == FrameAddress0
F1 == F0 + 8
\* A frame exactly kMaxFrameBytes above F0.
F2 == F0 + MaxFrame
\* A readable frame on another stack (an alternate signal stack), more than
\* INT_MAX bytes above the others.
FarFrame == IntHalf + 4096
\* An address that is not pointer-width aligned.
Misaligned == F0 + 11
\* A word-aligned address just above F1 that is not mapped.
Unmapped == F1 + 4
\* A word-aligned address inside the last two pages.
TopAddr == kTopPages + 8
\* The stack slot the signal context's stack pointer designates.
SlotAddr == F0 - 32

\* A deep stack of DeepCount minimal frames with fixed content: each frame's
\* saved frame pointer is the next frame, the last one's is null.
DeepBase == F0 + F0
DeepStride == Word + Word
DeepCount == kMaxUnwind + MaxDepth + 1
DeepEnd == DeepBase + DeepStride * DeepCount

\* Frames whose content is drawn freely.
Frames == {F0, F1, F2}
AllFrames == Frames \cup {FarFrame}
\* Every mapped word.
Cells == AllFrames \cup {f + Word : f \in AllFrames} \cup {SlotAddr}

\* Return addresses: a code address per frame, and the VDSO symbols.
PC(f) == 67256320 + f
SigReturnAddr == kTopPages + 512
VsyscallAddr == kTopPages + 528

\* ------------------------------------------------------------ memory

\* Whether a is a word of the deep stack, and the word it holds.
InDeep(a) == DeepBase <= a /\ a < DeepEnd /\ (a - DeepBase) % Word = 0
DeepWord(a) ==
  LET off == (a - DeepBase) % DeepStride
      next == a + DeepStride
  IN  IF off # 0 THEN PC(a - off)
      ELSE IF next < DeepEnd THEN next ELSE 0

\* *(void **)a, for a mapped word a: m holds the words of Cells.
Load(m, a) == IF InDeep(a) THEN DeepWord(a) ELSE m[a]

\* Whether a word can be read at a without a fault.
CanDeref(a) == a \in Cells \/ InDeep(a)

\* absl::debug_internal::AddressIsReadable: whether the address is mapped.
AddressIsReadable(a) ==
  \/ \E c \in Cells : c <= a /\ a < c + Word
  \/ (DeepBase <= a /\ a < DeepEnd)

\* (uintptr_t) of a signed register value: x + 2^32 bytes when negative.
ToUintptr(x) == IF x < 0 THEN (x + IntHalf) + IntHalf ELSE x

\* (int) of a uintptr_t value: x - 2^32 bytes from INT_MAX + 1 on.
ToInt(x) == IF x >= IntHalf THEN (x - IntHalf) - IntHalf ELSE x

\* ------------------------------------------------------------ decoder

\* One pass of the for loop of CountPushInstructions at offset i with
\* `result` pushes counted; addr maps offsets to bytes.  hi is the highest
\* offset read so far.  Yields [val, assert, hi]: the value returned when
\* assertions are compiled out, whether an assertion fails, and the highest
\* offset read.
\* The loop bound with i <= kMaxBytes.
InBudgetInclusive(i) == i <= kMaxBytes

\* The condition of the for loop: i < kMaxBytes.
InBudget(i) == i < kMaxBytes

\* The push test on the low nibble.
IsPushLowNibble(b) == b % 16 = 5

\* (addr[i] & 0xF0) == 0x50: "push %reg".
IsPush(b) == b \div 16 = 5

\* The unexpected instruction answered with 0 and no assertion.
UnexpectedIgnored(hi) == [val |-> 0, assert |-> FALSE, hi |-> hi]

\* An unexpected instruction: the assertion fails; 0 without assertions.
Unexpected(hi) == [val |-> 0, assert |-> TRUE, hi |-> hi]

RECURSIVE CountPushLoop(_, _, _, _)
CountPushLoop(addr, i, result, hi) ==
  IF ~InBudget(i)
  THEN [val |-> 0, assert |-> TRUE, hi |-> hi]
  ELSE
    LET h0 == IF i > hi THEN i ELSE hi
        h1 == IF i + 1 > hi THEN i + 1 ELSE hi
    IN  IF addr[i] = 137
        THEN IF addr[i + 1] = 229
             THEN [val |-> 0, assert |-> FALSE, hi |-> h1]
             ELSE CountPushLoop(addr, i + 2, result, h1)
        ELSE IF addr[i] = 15
             THEN IF addr[i + 1] = 52 \/ addr[i + 1] = 5
                  THEN [val |-> result, assert |-> FALSE, hi |-> h1]
                  ELSE Unexpected(h1)
        ELSE IF IsPush(addr[i])
             THEN CountPushLoop(addr, i + 1, result + 1, h0)
        ELSE IF addr[i] = 205
             THEN IF addr[i + 1] = 128
                  THEN [val |-> 0, assert |-> result # 0, hi |-> h1]
                  ELSE Unexpected(h1)
        ELSE Unexpected(h0)

CountPushInstructions(addr) == CountPushLoop(addr, 0, 0, -1)

\* ------------------------------------------------------------ register reader

\* GetFP: 0 without a context; the frame-pointer register when it is at or
\* above the stack pointer by at most kMaxFrameBytes, else the stack
\* pointer.  bp and sp are signed; ovf is what the build yields for
\* `bp - sp <= kMaxFrameBytes` when the subtraction overflows.
GetFP(vuc, ovf) ==
  IF vuc.null THEN 0
  ELSE LET bp == vuc.ebp
           sp == vuc.esp
           le == IF bp - sp >= IntHalf THEN ovf ELSE bp - sp <= MaxFrame
       IN  IF bp >= sp /\ le THEN ToUintptr(bp) ELSE ToUintptr(sp)

\* ------------------------------------------------------------ trampoline cache

\* The function-local statics of NextStackFrame before first use.
CacheInit == [num_push |-> -1, sigret |-> 0, vsys |-> 0]

\* The lazy initialisation of the statics.  vdso is what VDSOSupport
\* reports: whether the VDSO is mapped, the two symbol addresses (0 when the
\* lookup fails or yields null) and the bytes at __kernel_vsyscall.  Yields
\* the statics and whether an assertion failed on the way.
InitTrampolineCache(cache, vdso) ==
  IF cache.num_push # -1 THEN [cache |-> cache, assert |-> FALSE]
  ELSE IF ~vdso.present
       THEN [cache |-> [cache EXCEPT !.num_push = 0], assert |-> FALSE]
  ELSE IF vdso.sigret = 0 \/ vdso.vsys = 0
       THEN [cache |-> [cache EXCEPT !.num_push = 0], assert |-> TRUE]
  ELSE LET c == CountPushInstructions(vdso.code)
       IN  [cache |-> [num_push |-> c.val, sigret |-> vdso.sigret,
                       vsys |-> vdso.vsys],
            assert |-> c.assert]

\* The conditions of the trampoline correction: the frame returns into the
\* kernel's signal trampoline, its saved frame pointer is the context's
\* EBP, and the context's EIP is in the first bytes of __kernel_vsyscall.
SteppedIntoVsyscall(m, old_fp, new_fp, uc, cache) ==
  /\ cache.num_push # 0 /\ cache.sigret # 0
  /\ Load(m, old_fp + Word) = cache.sigret
  /\ new_fp = ToUintptr(uc.ebp)
  /\ cache.vsys <= ToUintptr(uc.eip)
  /\ Unit * (ToUintptr(uc.eip) - cache.vsys) < kMaxBytes

\* The trampoline correction: the candidate after it, or a fault when the
\* slot at the context's stack pointer cannot be read.  new_fp is the word
\* at old_fp.
TrampolineCorrect(m, old_fp, new_fp, uc, cache) ==
  IF cache.num_push # 0 /\ cache.sigret # 0
     /\ ~CanDeref(old_fp + Word)
  THEN [fp |-> new_fp, out |-> "fault"]
  ELSE IF SteppedIntoVsyscall(m, old_fp, new_fp, uc, cache)
  THEN LET reg_esp == ToUintptr(uc.esp)
           slot == reg_esp + Word * (cache.num_push - 1)
       IN  IF reg_esp # 0 /\ reg_esp % Word = 0
           THEN IF ~CanDeref(slot)
                THEN [fp |-> new_fp, out |-> "fault"]
                ELSE IF AddressIsReadable(Load(m, slot))
                     THEN [fp |-> Load(m, slot), out |-> "ok"]
                     ELSE [fp |-> new_fp, out |-> "ok"]
           ELSE [fp |-> new_fp, out |-> "ok"]
  ELSE [fp |-> new_fp, out |-> "ok"]

\* ------------------------------------------------------------ frame step

\* The strict test with the gap bound exclusive.
StrictStepGapExclusive(old_fp, new_fp) ==
  ~(new_fp <= old_fp) /\ ~(new_fp - old_fp >= MaxFrame)

\* The strict transition test: an older frame is at a greater address, at
\* most kMaxFrameBytes away.
StrictStepOk(old_fp, new_fp) ==
  ~(new_fp <= old_fp) /\ ~(new_fp - old_fp > MaxFrame)

\* The strict test never chosen.
StrictTestSkipped(strict, with_context, uc, new_fp, ovf) == FALSE

\* The lax test without the comparison with old_fp.
LaxStepAllowsSelf(old_fp, new_fp) == new_fp # 0

\* The lax transition test: non-null and not the frame itself.
LaxStepOk(old_fp, new_fp) == new_fp # 0 /\ new_fp # old_fp

\* The lax mode without its readability probe.
LaxProbeSkipped(strict, new_fp) == TRUE

\* if (!STRICT_UNWINDING) { if (!AddressIsReadable(new_fp)) return nullptr; }
LaxProbeOk(strict, new_fp) == strict \/ AddressIsReadable(new_fp)

\* Whether the strict test is the one applied to this transition.
UsesStrictTest(strict, with_context, uc, new_fp, ovf) ==
  strict /\ (~with_context \/ uc.null \/ new_fp # GetFP(uc, ovf))

\* The checks of NextStackFrame on the candidate new_fp: the validated frame
\* pointer, or 0.
Validate(strict, with_context, old_fp, new_fp, uc, ovf) ==
  IF UsesStrictTest(strict, with_context, uc, new_fp, ovf)
     /\ ~StrictStepOk(old_fp, new_fp) THEN 0
  ELSE IF ~UsesStrictTest(strict, with_context, uc, new_fp, ovf)
          /\ ~LaxStepOk(old_fp, new_fp) THEN 0
  ELSE IF new_fp % Word # 0 THEN 0
  ELSE IF new_fp >= kTopPages THEN 0
  ELSE IF ~LaxProbeOk(strict, new_fp) THEN 0
  ELSE new_fp

\* The candidate NextStackFrame validates: the word at old_fp, after the
\* trampoline correction when a context is given.
Candidate(m, with_context, old_fp, uc, cache) ==
  IF with_context /\ ~uc.null
  THEN TrampolineCorrect(m, old_fp, Load(m, old_fp), uc, cache)
  ELSE [fp |-> Load(m, old_fp), out |-> "ok"]

\* NextStackFrame reading the statics as they were before the lazy
\* initialisation of the same call.
NextStackFrameStale(m, strict, with_context, old_fp, uc, cache, vdso, bld) ==
  IF ~CanDeref(old_fp) THEN [fp |-> 0, cache |-> cache, out |-> "fault"]
  ELSE
    LET ini == IF with_context /\ ~uc.null
               THEN InitTrampolineCache(cache, vdso)
               ELSE [cache |-> cache, assert |-> FALSE]
        cand == Candidate(m, with_context, old_fp, uc, cache)
    IN  IF ini.assert /\ ~bld.ndebug
        THEN [fp |-> 0, cache |-> cache, out |-> "abort"]
        ELSE IF cand.out # "ok"
        THEN [fp |-> 0, cache |-> ini.cache, out |-> cand.out]
        ELSE [fp |-> Validate(strict, with_context, old_fp, cand.fp, uc,
                              bld.ovf),
              cache |-> ini.cache, out |-> "ok"]

\* NextStackFrame<strict, with_context>(old_fp, uc): [fp, cache, out], fp the
\* calling frame or 0, cache the statics after the call, out one of "ok",
\* "fault" (a dereference of an unmapped address) and "abort" (a failed
\* assertion in a build that keeps them).
NextStackFrame(m, strict, with_context, old_fp, uc, cache, vdso, bld) ==
  IF ~CanDeref(old_fp) THEN [fp |-> 0, cache |-> cache, out |-> "fault"]
  ELSE
    LET ini == IF with_context /\ ~uc.null
               THEN InitTrampolineCache(cache, vdso)
               ELSE [cache |-> cache, assert |-> FALSE]
        cand == Candidate(m, with_context, old_fp, uc, ini.cache)
    IN  IF ini.assert /\ ~bld.ndebug
        THEN [fp |-> 0, cache |-> cache, out |-> "abort"]
        ELSE IF cand.out # "ok"
        THEN [fp |-> 0, cache |-> ini.cache, out |-> cand.out]
        ELSE [fp |-> Validate(strict, with_context, old_fp, cand.fp, uc,
                              bld.ovf),
              cache |-> ini.cache, out |-> "ok"]

\* ------------------------------------------------------------ state

VARIABLES
  mem,       \* the memory: mapped word -> value
  vdso,      \* what VDSOSupport reports
  bld,       \* the build: ndebug (assertions compiled out), ovf
  arg,       \* the arguments and template parameters of the running call
  pc,        \* "loop", "tail", "done", "fault", "abort"
  fp,        \* UnwindImpl's fp
  n,         \* UnwindImpl's n
  skip_count,\* UnwindImpl's skip_count, counted down
  result,    \* result[0 .. n-1], as a sequence
  sizes,     \* sizes[0 .. n-1], as a sequence
  min_dropped_frames, \* *min_dropped_frames, -1 while not written
  cache,     \* the statics of NextStackFrame
  nsf,       \* NextStackFrame invocations of the running call
  seen,      \* the frame pointers fp has held in the running call
  revisit,   \* whether fp has held some frame pointer twice
  steps,     \* the transitions <<old_fp, new_fp>> NextStackFrame accepted
  frames,    \* frames[i]: the frame whose return address is result[i]
  call,      \* 1 for the first call of the process, 2 for the second
  prev,      \* the first call's arguments and outputs, once it returned
  vuc,       \* GetFP called on its own: its argument
  ovf,       \* ... what the build yields when bp - sp overflows
  ret,       \* ... its return value, -1 before the return
  npush,     \* CountPushInstructions called on its own: the code at addr
  insns,     \*   is npush pushes, then the instructions insns,
  pad,       \*   then the instruction pad repeated
  cpi,       \* ... its outcome [val, assert, hi], val -1 before the return
  tpc,       \* threads in NextStackFrame: where each thread is
  tobs,      \* ... what each thread read of the statics in its call
  pend,      \* ... the stores to the statics each thread has yet to make
  ncalls,    \* ... the calls each thread has made
  lookups,   \* ... how many times the VDSO symbols were looked up
  counts     \* ... how many times CountPushInstructions was executed

\* The variables of the functions called on their own.
getfpVars == <<vuc, ovf, ret>>
decoderVars == <<npush, insns, pad, cpi>>
threadVars == <<tpc, tobs, pend, ncalls, lookups, counts>>
sideVars == <<getfpVars, decoderVars, threadVars>>

vars == <<mem, vdso, bld, arg, pc, fp, n, skip_count, result, sizes,
          min_dropped_frames, cache, nsf, seen, revisit, steps, frames,
          call, prev, sideVars>>

\* No function is called on its own.
GetFPIdle ==
  /\ vuc = [null |-> TRUE, ebp |-> 0, esp |-> 0, eip |-> 0]
  /\ ovf = TRUE /\ ret = -1

DecoderIdle ==
  /\ npush = 0 /\ insns = <<>> /\ pad = "ret"
  /\ cpi = [val |-> -1, assert |-> FALSE, hi |-> -1]

ThreadsIdle ==
  /\ tpc = <<>> /\ tobs = <<>> /\ pend = <<>> /\ ncalls = <<>>
  /\ lookups = 0 /\ counts = 0

SideIdle == GetFPIdle /\ DecoderIdle /\ ThreadsIdle

\* What a call reads and never writes.
Cx == [mem |-> mem, vdso |-> vdso, bld |-> bld,
       IS_STACK_FRAMES |-> arg.IS_STACK_FRAMES,
       IS_WITH_CONTEXT |-> arg.IS_WITH_CONTEXT, ucp |-> arg.ucp]

\* The locals of the running call.
Locals == [pc |-> pc, fp |-> fp, n |-> n, skip_count |-> skip_count,
           result |-> result, sizes |-> sizes, j |-> min_dropped_frames,
           cache |-> cache, nsf |-> nsf, seen |-> seen, revisit |-> revisit,
           steps |-> steps, frames |-> frames]

\* The locals on entry to UnwindImpl with statics c.
Entry(a, c) ==
  [pc |-> "loop", fp |-> FrameAddress0, n |-> 0, skip_count |-> a.skip_count,
   result |-> <<>>, sizes |-> <<>>, j |-> -1, cache |-> c, nsf |-> 0,
   seen |-> {FrameAddress0}, revisit |-> FALSE, steps |-> {},
   frames |-> <<>>]

\* fp = next: the locals after the assignment.
Advance(s, next) ==
  [s EXCEPT !.fp = next,
            !.seen = IF next = 0 THEN @ ELSE @ \cup {next},
            !.revisit = @ \/ (next # 0 /\ next \in s.seen),
            !.steps = IF next = 0 THEN @ ELSE @ \cup {<<s.fp, next>>}]

\* The frame size stored in sizes[n].
FrameSize(cur, next_fp) == IF next_fp > cur THEN ToInt(next_fp - cur) ELSE 0

\* The loop condition with n <= max_depth.
LoopCondOffByOne(f, k, max_depth) == f # 0 /\ k <= max_depth

\* The condition of the while loop of UnwindImpl.
LoopCond(f, k, max_depth) == f # 0 /\ k < max_depth

\* A skipped frame counted in n.
SkipFrameCounted(s) == [s EXCEPT !.skip_count = @ - 1, !.n = @ + 1]

\* A frame within skip_count: counted down, nothing recorded.
SkipFrame(s) == [s EXCEPT !.skip_count = @ - 1]

\* result[n] = *(fp + 1), sizes[n] when sizes are recorded, n++.
RecordFrame(cx, s, next_fp) ==
  [s EXCEPT !.result = Append(@, Load(cx.mem, s.fp + Word)),
            !.frames = Append(@, s.fp),
            !.sizes = IF cx.IS_STACK_FRAMES
                      THEN Append(@, FrameSize(s.fp, next_fp))
                      ELSE @,
            !.n = @ + 1]

\* The test of the return-address slot never taken.
ReturnAddressNeverNull(m, f) == FALSE

\* *(fp + 1) == 0: the return-address slot of the frame reads as null.
ReturnAddressIsNull(m, f) == Load(m, f + Word) = 0

\* One pass of the while loop of UnwindImpl, its condition holding.
LoopBody(cx, s) ==
  IF ~CanDeref(s.fp + Word) THEN [s EXCEPT !.pc = "fault"]
  ELSE IF ReturnAddressIsNull(cx.mem, s.fp) THEN [s EXCEPT !.pc = "tail"]
  ELSE
    LET r == NextStackFrame(cx.mem, ~cx.IS_STACK_FRAMES, cx.IS_WITH_CONTEXT,
                            s.fp, cx.ucp, s.cache, cx.vdso, cx.bld)
        t == [s EXCEPT !.cache = r.cache, !.nsf = @ + 1]
    IN  IF r.out # "ok" THEN [t EXCEPT !.pc = r.out]
        ELSE IF s.skip_count > 0
        THEN Advance(SkipFrame(t), r.fp)
        ELSE Advance(RecordFrame(cx, t, r.fp), r.fp)

\* The condition of the for loop with j <= kMaxUnwind.
DropCondInclusive(f, j) == f # 0 /\ j <= kMaxUnwind

\* The condition of the for loop that counts the dropped frames.
DropCond(f, j) == f # 0 /\ j < kMaxUnwind

\* One pass of the for loop that counts the dropped frames; the locals
\* unchanged once the loop has ended.
DropBody(cx, s) ==
  IF ~(s.pc = "tail" /\ DropCond(s.fp, s.j)) THEN s
  ELSE
    LET r == NextStackFrame(cx.mem, ~cx.IS_STACK_FRAMES, cx.IS_WITH_CONTEXT,
                            s.fp, cx.ucp, s.cache, cx.vdso, cx.bld)
        t == [s EXCEPT !.cache = r.cache, !.nsf = @ + 1]
    IN  IF r.out # "ok" THEN [t EXCEPT !.pc = r.out]
        ELSE Advance([t EXCEPT !.j = @ + 1], r.fp)

\* k passes of the for loop, the first half of them and then the rest.
RECURSIVE DropPasses(_, _, _)
DropPasses(cx, s, k) ==
  IF k = 0 \/ ~(s.pc = "tail" /\ DropCond(s.fp, s.j)) THEN s
  ELSE IF k = 1 THEN DropBody(cx, s)
  ELSE DropPasses(cx, DropPasses(cx, s, k \div 2), k - k \div 2)

\* The dropped-frame loop capped one pass early.
DropLoopShortCap(cx, s) == DropPasses(cx, s, kMaxUnwind - 1)

\* The for loop that counts the dropped frames, run until its condition
\* fails: that is within kMaxUnwind passes.
DropLoop(cx, s) == DropPasses(cx, s, kMaxUnwind + 1)

\* UnwindImpl after the while loop.
AfterLoop(cx, want_dropped, s) ==
  IF want_dropped
  THEN LET d == DropLoop(cx, [s EXCEPT !.j = 0])
       IN  IF d.pc = "tail" THEN [d EXCEPT !.pc = "done"] ELSE d
  ELSE [s EXCEPT !.pc = "done"]

SetLocals(s) ==
  /\ pc' = s.pc
  /\ fp' = s.fp
  /\ n' = s.n
  /\ skip_count' = s.skip_count
  /\ result' = s.result
  /\ sizes' = s.sizes
  /\ min_dropped_frames' = s.j
  /\ cache' = s.cache
  /\ nsf' = s.nsf
  /\ seen' = s.seen
  /\ revisit' = s.revisit
  /\ steps' = s.steps
  /\ frames' = s.frames

SetLocalsInit(s) ==
  /\ pc = s.pc
  /\ fp = s.fp
  /\ n = s.n
  /\ skip_count = s.skip_count
  /\ result = s.result
  /\ sizes = s.sizes
  /\ min_dropped_frames = s.j
  /\ cache = s.cache
  /\ nsf = s.nsf
  /\ seen = s.seen
  /\ revisit = s.revisit
  /\ steps = s.steps
  /\ frames = s.frames

\* ------------------------------------------------------------ actions

\* while (fp && n < max_depth) { ... }: one pass of the body.
LoopIter ==
  /\ pc = "loop"
  /\ LoopCond(fp, n, arg.max_depth)
  /\ SetLocals(LoopBody(Cx, Locals))
  /\ UNCHANGED <<mem, vdso, bld, arg, call, prev, sideVars>>

\* The while condition fails.
LoopExit ==
  /\ pc = "loop"
  /\ ~LoopCond(fp, n, arg.max_depth)
  /\ pc' = "tail"
  /\ UNCHANGED <<mem, vdso, bld, arg, fp, n, skip_count, result, sizes,
                 min_dropped_frames, cache, nsf, seen, revisit, steps,
                 frames, call, prev, sideVars>>

\* The dropped-frame estimate, and the return.
DroppedFrames ==
  /\ pc = "tail"
  /\ SetLocals(AfterLoop(Cx, arg.want_dropped, Locals))
  /\ UNCHANGED <<mem, vdso, bld, arg, call, prev, sideVars>>

\* The arguments of the second call: the first call's, or the first call's
\* with the skipped frames requested instead (skip_count 0, max_depth raised
\* by skip_count).
SecondArgs(a) ==
  {a, [a EXCEPT !.max_depth = a.max_depth + a.skip_count, !.skip_count = 0]}

\* The process calls UnwindImpl again, on the same memory.
CallAgain ==
  /\ pc = "done" /\ call = 1
  /\ call' = 2
  /\ prev' = [arg |-> arg, n |-> n, result |-> result, sizes |-> sizes,
              dropped |-> min_dropped_frames]
  /\ \E a \in SecondArgs(arg) :
       /\ arg' = a
       /\ SetLocals(Entry(a, cache))
  /\ UNCHANGED <<mem, vdso, bld, sideVars>>

Next == LoopIter \/ LoopExit \/ DroppedFrames \/ CallAgain

\* ------------------------------------------------------------ initial states

\* The frames a walk from the roots can stand on, whatever its mode.
RECURSIVE ReachFrom(_, _, _)
ReachFrom(link, S, k) ==
  IF k = 0 THEN S
  ELSE ReachFrom(link, S \cup {link[f] : f \in S \cap Frames}, k - 1)

\* The memory with frame contents fr (a saved frame pointer and a return
\* address per frame of Frames) and the word sl in the slot at the
\* context's stack pointer.  The far frame ends its stack: a null saved
\* frame pointer.
MakeMem(fr, sl) ==
  [c \in Cells |->
     IF c \in Frames THEN fr[c].link
     ELSE IF c - Word \in Frames THEN fr[c - Word].ret
     ELSE IF c = FarFrame THEN 0
     ELSE IF c = FarFrame + Word THEN PC(FarFrame)
     ELSE sl]

\* Frames no walk reads hold a fixed content: one memory stands for the
\* memories the program cannot tell apart.
Canonical(fr, sl) ==
  LET link == [f \in Frames |-> fr[f].link]
      R == ReachFrom(link, {F0, sl}, Cardinality(Frames))
  IN  \A f \in Frames \ R : fr[f] = [link |-> 0, ret |-> PC(f)]

\* The memories whose saved frame pointers are drawn from links, whose
\* return addresses from rets[f], and whose slot from slots.
Memories(links, rets, slots) ==
  {MakeMem(x[1], x[2]) :
     x \in {y \in [Frames -> [link : links,
                              ret : UNION {rets[f] : f \in Frames}]]
                  \X slots :
              /\ \A f \in Frames : y[1][f].ret \in rets[f]
              /\ Canonical(y[1], y[2])}}

PlainLinks == {0, F0, F1, F2, FarFrame, Misaligned, Unmapped, TopAddr}
PlainRets == [f \in Frames |-> {0, PC(f)}]
DeepLinks == {0, DeepBase}
\* Saved frame pointers of a healthy stack: null or a frame above.
UpLinks == {0, F1, F2}
SignalRets == [f \in Frames |-> {PC(f), SigReturnAddr}]
StackLinks == {0, F0, F1, F2}
StackRets == [f \in Frames |-> {PC(f)}]

NullContext == [null |-> TRUE, ebp |-> 0, esp |-> 0, eip |-> 0]

\* Signal contexts: the three registers the unwinder reads.
Contexts ==
  [null : {FALSE}, ebp : {F1}, esp : {SlotAddr, Unmapped},
   eip : {VsyscallAddr + 1, PC(F0)}]

\* A context taken on another stack, its frame-pointer register at F1.
StackContext ==
  [null |-> FALSE, ebp |-> F1, esp |-> SlotAddr, eip |-> PC(F0)]

\* The arguments of UnwindImpl, with its template parameters.
Args(with_context, ucps) ==
  [max_depth : 0 .. MaxDepth, skip_count : 0 .. MaxSkip,
   IS_STACK_FRAMES : BOOLEAN, IS_WITH_CONTEXT : with_context,
   ucp : ucps, want_dropped : BOOLEAN]

\* The bytes at __kernel_vsyscall, offsets 0 .. kMaxBytes + 1.
CodeBytes(seq) ==
  [i \in 0 .. kMaxBytes + 1 |-> IF i < Len(seq) THEN seq[i + 1] ELSE 195]
\* push %ebp; mov %ecx,%ebp; syscall; ...
SyscallCode == CodeBytes(<<85, 137, 205, 15, 5, 185, 43, 0, 0, 0, 142>>)
\* push %ecx; push %edx; push %ebp; mov %esp,%ebp; sysenter
SysenterCode == CodeBytes(<<81, 82, 85, 137, 229, 15, 52>>)
\* int $0x80; ret
Int80Code == CodeBytes(<<205, 128, 195>>)

NoVdso == [present |-> FALSE, sigret |-> 0, vsys |-> 0, code |-> Int80Code]
VdsoWith(code) ==
  [present |-> TRUE, sigret |-> SigReturnAddr, vsys |-> VsyscallAddr,
   code |-> code]

\* The first call starts.
InitCall ==
  /\ SetLocalsInit(Entry(arg, CacheInit))
  /\ SideIdle
  /\ call = 1
  /\ prev = [arg |-> arg, n |-> 0, result |-> <<>>, sizes |-> <<>>,
             dropped |-> -1]

\* Calls without a signal context, on any memory.
InitPlain ==
  /\ mem \in Memories(PlainLinks, PlainRets, {Unmapped})
  /\ vdso = NoVdso
  /\ bld = [ndebug |-> FALSE, ovf |-> TRUE]
  /\ arg \in Args({FALSE}, {NullContext})
  /\ InitCall

\* Calls without a signal context from a frame on top of the deep stack.
InitDeep ==
  /\ mem \in Memories(DeepLinks, PlainRets, {Unmapped})
  /\ vdso = NoVdso
  /\ bld = [ndebug |-> FALSE, ovf |-> TRUE]
  /\ arg \in Args({FALSE}, {NullContext})
  /\ InitCall

\* Calls with a signal context that may have been taken inside the VDSO,
\* on a healthy stack.
InitTrampoline ==
  /\ mem \in {m \in Memories(UpLinks, SignalRets, {F2, Unmapped}) :
               \A f \in Frames : m[f] = 0 \/ m[f] > f}
  /\ vdso \in {NoVdso, VdsoWith(SyscallCode), VdsoWith(SysenterCode)}
  /\ bld = [ndebug |-> FALSE, ovf |-> TRUE]
  /\ arg \in Args({TRUE}, Contexts)
  /\ InitCall

\* Calls made with the context parameter, null or taken on another stack,
\* on any chain of mapped frames.
InitSignalStack ==
  /\ mem \in Memories(StackLinks, StackRets, {Unmapped})
  /\ vdso = NoVdso
  /\ bld = [ndebug |-> FALSE, ovf |-> TRUE]
  /\ arg \in Args({TRUE}, {NullContext, StackContext})
  /\ InitCall

Init == InitPlain \/ InitDeep \/ InitTrampoline \/ InitSignalStack

Spec == Init /\ [][Next]_vars

\* ------------------------------------------------------------ properties

Min(a, b) == IF a < b THEN a ELSE b

\* C1: the captured-frame count n is within 0 .. max_depth in every state of
\* a call, the loop's intermediate states and the return included, and
\* result holds exactly n entries.
C1_CountWithinMaxDepth ==
  /\ 0 <= n /\ n <= arg.max_depth
  /\ Len(result) = n

\* C1 witness: a call returned with the budget used up and frames left.
C1_Witness ==
  pc = "done" /\ n = arg.max_depth /\ n = MaxDepth /\ fp # 0

\* C2: when the second call asks for the first call's skipped frames too
\* (max_depth = d + s, skip_count = 0), the first call's addresses are its
\* elements s + 1 .. s + d, as far as they exist.
C2_SkipIsSuffix ==
  (call = 2 /\ pc = "done"
   /\ arg = [prev.arg EXCEPT !.max_depth = prev.arg.max_depth
                                            + prev.arg.skip_count,
                             !.skip_count = 0])
  => prev.result = SubSeq(result, prev.arg.skip_count + 1,
                          Min(prev.arg.skip_count + prev.arg.max_depth,
                              Len(result)))

\* C2 witness: frames were skipped and frames were recorded, and the second
\* call returned more addresses than the first.
C2_Witness ==
  /\ call = 2 /\ pc = "done"
  /\ prev.arg.skip_count > 0 /\ arg.skip_count = 0
  /\ arg.max_depth = prev.arg.max_depth + prev.arg.skip_count
  /\ Len(prev.result) > 0 /\ Len(result) > Len(prev.result)

\* The length of the stack that starts at frame f when it is well formed
\* (frames word-aligned and mapped, at strictly increasing addresses at most
\* kMaxFrameBytes apart, each with a non-null return address, the last
\* one's saved frame pointer null), and -1 when it is not.  The frames of
\* the deep stack are well formed by construction.
RECURSIVE StackLength(_, _, _)
StackLength(m, f, fuel) ==
  IF InDeep(f) /\ (f - DeepBase) % DeepStride = 0
  THEN (DeepEnd - f) \div DeepStride
  ELSE IF fuel = 0 \/ f \notin AllFrames \/ Load(m, f + Word) = 0 THEN -1
  ELSE IF Load(m, f) = 0 THEN 1
  ELSE IF Load(m, f) > f /\ Load(m, f) - f <= MaxFrame
          /\ Load(m, f) % Word = 0
       THEN LET r == StackLength(m, Load(m, f), fuel - 1)
            IN  IF r < 0 THEN -1 ELSE r + 1
       ELSE -1

\* N of the well-formed stack the walk starts on, or -1.
WellFormedN == StackLength(mem, FrameAddress0, Cardinality(AllFrames))

\* Frame i (from 0) of the chain of saved frame pointers from f.
RECURSIVE ChainFrame(_, _, _)
ChainFrame(m, f, i) == IF i = 0 THEN f ELSE ChainFrame(m, Load(m, f), i - 1)

\* result[0 .. k-1] are the first k planted return addresses, in order.
PlantedPrefix(k) ==
  /\ Len(result) = k
  /\ \A i \in 1 .. k :
       result[i] = Load(mem, ChainFrame(mem, FrameAddress0, i - 1) + Word)

\* Whether the trampoline correction replaces the saved frame pointer of
\* frame f in the running call.
CorrectedAt(f) ==
  /\ arg.IS_WITH_CONTEXT /\ ~arg.ucp.null
  /\ Candidate(mem, TRUE, f, arg.ucp,
               InitTrampolineCache(cache, vdso).cache).fp # Load(mem, f)

\* Whether frame f meets the conditions of the trampoline correction in
\* the running call.
TrampolineAt(f) ==
  /\ arg.IS_WITH_CONTEXT /\ ~arg.ucp.null
  /\ SteppedIntoVsyscall(mem, f, Load(mem, f), arg.ucp,
                         InitTrampolineCache(cache, vdso).cache)

\* None of the first k frames of the chain meets them.
NoCorrection(k) ==
  (arg.IS_WITH_CONTEXT /\ ~arg.ucp.null)
  => \A i \in 0 .. k - 1 : ~TrampolineAt(ChainFrame(mem, FrameAddress0, i))

\* C3 as stated: on a well-formed stack of N frames, a call with
\* max_depth >= N and skip_count = 0 returns N, the planted return
\* addresses in order, and a dropped-frame estimate of 0.
C3_Original ==
  (pc = "done" /\ WellFormedN > 0 /\ arg.skip_count = 0
   /\ arg.max_depth >= WellFormedN)
  => /\ n = WellFormedN
     /\ PlantedPrefix(WellFormedN)
     /\ (arg.want_dropped => min_dropped_frames = 0)

\* C3 amended: the same, for the calls in which no frame of the stack meets
\* the conditions of the trampoline correction; such a call returns.
C3_WellFormedStack ==
  (WellFormedN > 0 /\ arg.skip_count = 0
   /\ arg.max_depth >= WellFormedN /\ NoCorrection(WellFormedN))
  => /\ pc \notin {"fault", "abort"}
     /\ pc = "done" => /\ n = WellFormedN
                       /\ PlantedPrefix(WellFormedN)
                       /\ (arg.want_dropped => min_dropped_frames = 0)

\* C3 witness: a stack of at least two frames was walked to its end with a
\* signal context taken in __kernel_vsyscall, and the estimate was asked
\* for.
C3_Witness ==
  /\ pc = "done" /\ WellFormedN >= 2 /\ arg.skip_count = 0
  /\ arg.max_depth >= WellFormedN /\ NoCorrection(WellFormedN)
  /\ ~arg.ucp.null /\ vdso.present /\ arg.want_dropped /\ n = WellFormedN

\* C4 as stated: on a well-formed stack of N frames, a call with
\* max_depth = k < N and skip_count = 0 returns k, the first k planted
\* return addresses, and a dropped-frame estimate of min(N - k, 1000).
C4_Original ==
  (pc = "done" /\ WellFormedN > 0 /\ arg.skip_count = 0
   /\ arg.max_depth < WellFormedN)
  => /\ n = arg.max_depth
     /\ PlantedPrefix(arg.max_depth)
     /\ (arg.want_dropped
         => min_dropped_frames = Min(WellFormedN - arg.max_depth,
                                     kMaxUnwind))

\* C4 amended: the same, for the calls in which no frame of the stack meets
\* the conditions of the trampoline correction; such a call returns.
C4_TruncatedStack ==
  (WellFormedN > 0 /\ arg.skip_count = 0
   /\ arg.max_depth < WellFormedN /\ NoCorrection(WellFormedN))
  => /\ pc \notin {"fault", "abort"}
     /\ pc = "done"
        => /\ n = arg.max_depth
           /\ PlantedPrefix(arg.max_depth)
           /\ (arg.want_dropped
               => min_dropped_frames = Min(WellFormedN - arg.max_depth,
                                           kMaxUnwind))

\* C4 witness: the estimate of a truncated walk hit the cap.
C4_Witness ==
  /\ pc = "done" /\ arg.skip_count = 0 /\ arg.max_depth > 0
  /\ WellFormedN - arg.max_depth > kMaxUnwind
  /\ arg.want_dropped /\ min_dropped_frames = kMaxUnwind

\* C4 witness of the uncapped case: a truncated walk on a short stack.
C4_WitnessShort ==
  /\ pc = "done" /\ arg.skip_count = 0 /\ arg.max_depth > 0
  /\ WellFormedN > arg.max_depth /\ WellFormedN - arg.max_depth < kMaxUnwind
  /\ arg.want_dropped /\ min_dropped_frames = WellFormedN - arg.max_depth

\* Whether the running call was given a signal context.
HasContext == arg.IS_WITH_CONTEXT /\ ~arg.ucp.null

\* Whether an accepted transition is to the context's own frame pointer,
\* for which NextStackFrame skips the strict test.
ToContextFP(t) == HasContext /\ t[2] = GetFP(arg.ucp, bld.ovf)

Monotone(t) == t[2] > t[1] /\ t[2] - t[1] <= MaxFrame

\* C5 as stated: in strict mode every accepted transition A -> B has
\* B > A and B - A <= kMaxFrameBytes, whatever the signal context.
C5_Original ==
  ~arg.IS_STACK_FRAMES => \A t \in steps : Monotone(t)

\* C5 amended: in strict mode every accepted transition A -> B, other than
\* one to the frame pointer of the signal context, has B > A and
\* B - A <= kMaxFrameBytes.
C5_StrictMonotone ==
  ~arg.IS_STACK_FRAMES => \A t \in steps : ~ToContextFP(t) => Monotone(t)

\* C5 witness: a strict walk with a context accepted two transitions, one
\* of them over exactly kMaxFrameBytes.
C5_Witness ==
  /\ ~arg.IS_STACK_FRAMES /\ HasContext
  /\ \E t, u \in steps :
       /\ t # u /\ ~ToContextFP(t) /\ ~ToContextFP(u)
       /\ t[2] - t[1] = MaxFrame

\* A cycle A -> B -> A of two different mapped frames.
HasCycle ==
  \E a, b \in AllFrames : a # b /\ Load(mem, a) = b /\ Load(mem, b) = a

\* C6 as stated: with a frame-pointer cycle A -> B -> A in memory, no frame
\* pointer is visited twice within a call, in either mode.
C6_Original == HasCycle => ~revisit

\* The size expected of frame f:       the distance to the validated next
\* frame pointer when that is at a higher address, else 0.
ExpectedSize(f) ==
  LET r == NextStackFrame(mem, ~arg.IS_STACK_FRAMES, arg.IS_WITH_CONTEXT, f,
                          arg.ucp, cache, vdso, bld)
  IN  IF r.fp > f THEN r.fp - f ELSE 0

\* C7: with sizes recorded, sizes[i] is exactly the distance from frame i
\* to its validated next frame when that is higher, else 0, and sizes has
\* as many entries as result.
C7_Original ==
  arg.IS_STACK_FRAMES =>
    /\ Len(sizes) = Len(result)
    /\ \A i \in 1 .. Len(sizes) : sizes[i] = ExpectedSize(frames[i])

\* The candidate NextStackFrame validates at the running call's fp.
CandidateHere ==
  Candidate(mem, arg.IS_WITH_CONTEXT, fp, arg.ucp,
            IF HasContext THEN InitTrampolineCache(cache, vdso).cache
            ELSE cache)

\* The loop is about to step from frame fp.
SteppingHere ==
  /\ pc = "loop" /\ LoopCond(fp, n, arg.max_depth)
  /\ CanDeref(fp + Word) /\ Load(mem, fp + Word) # 0
  /\ CandidateHere.out = "ok"

\* The walk ends at the frame it is on, what it recorded kept.
WalkEndsHere ==
  /\ fp' = 0
  /\ Len(result') <= Len(result) + 1
  /\ SubSeq(result', 1, Len(result)) = result
  /\ SubSeq(sizes', 1, Len(sizes)) = sizes

\* C8 as stated: a candidate that is misaligned, or not above the frame in
\* strict mode, or the frame itself in lax mode, ends the walk at that
\* frame with the entries recorded so far unchanged.
C8_Original ==
  [][(SteppingHere
      /\ \/ CandidateHere.fp % Word # 0
         \/ (~arg.IS_STACK_FRAMES /\ CandidateHere.fp <= fp)
         \/ (arg.IS_STACK_FRAMES /\ CandidateHere.fp = fp))
     => WalkEndsHere]_vars

\* C8 amended: the same, the strict case holding for a candidate that is
\* not the frame pointer of the signal context, or is null or the frame
\* itself.
C8_BadCandidateStops ==
  [][(SteppingHere
      /\ \/ CandidateHere.fp % Word # 0
         \/ (~arg.IS_STACK_FRAMES /\ CandidateHere.fp <= fp
             /\ (~ToContextFP(<<fp, CandidateHere.fp>>)
                 \/ CandidateHere.fp \in {0, fp}))
         \/ (arg.IS_STACK_FRAMES /\ CandidateHere.fp = fp))
     => WalkEndsHere]_vars

\* C8 witness: a strict walk with a context stopped at its second frame on
\* a saved frame pointer below it, two entries recorded.
C8_Witness ==
  /\ pc = "done" /\ ~arg.IS_STACK_FRAMES /\ HasContext
  /\ n = 2 /\ fp = 0
  /\ Load(mem, frames[2]) # 0 /\ Load(mem, frames[2]) < frames[2]
  /\ Load(mem, frames[2]) % Word = 0

\* A pass of the while loop with max_depth unbounded; the locals unchanged
\* once the loop has ended.
WalkBody(cx, s) ==
  IF s.pc = "loop" /\ s.fp # 0 THEN LoopBody(cx, s) ELSE s

RECURSIVE WalkPasses(_, _, _)
WalkPasses(cx, s, k) ==
  IF k = 0 \/ ~(s.pc = "loop" /\ s.fp # 0) THEN s
  ELSE IF k = 1 THEN WalkBody(cx, s)
  ELSE WalkPasses(cx, WalkPasses(cx, s, k \div 2), k - k \div 2)

\* The frames the running call would have recorded with max_depth
\* unbounded, counted up to kMaxUnwind beyond arg.max_depth.
UnboundedCount ==
  WalkPasses(Cx, Entry(arg, cache),
             kMaxUnwind + arg.max_depth + arg.skip_count).n

\* C9: a requested dropped-frame estimate d is within 0 .. 1000 and at most
\* the number of frames the same walk would have recorded beyond max_depth.
C9_Original ==
  (pc = "done" /\ arg.want_dropped)
  => /\ 0 <= min_dropped_frames /\ min_dropped_frames <= kMaxUnwind
     /\ min_dropped_frames <= UnboundedCount - n

\* C10: a second call with the first call's arguments returns, and returns
\* the first call's count, addresses, sizes and dropped-frame estimate.
C10_Idempotent ==
  (call = 2 /\ arg = prev.arg)
  => /\ pc \notin {"fault", "abort"}
     /\ pc = "done" => /\ n = prev.n
                       /\ result = prev.result
                       /\ sizes = prev.sizes
                       /\ min_dropped_frames = prev.dropped

\* C10 witness: the first call initialised the trampoline cache and the
\* correction replaced a saved frame pointer; the second call returned.
C10_Witness ==
  /\ call = 2 /\ arg = prev.arg /\ pc = "done"
  /\ HasContext /\ vdso.present /\ cache.num_push = 1
  /\ n = 2 /\ CorrectedAt(frames[1])
  /\ arg.IS_STACK_FRAMES /\ arg.want_dropped

\* ------------------------------------------------------------ GetFP alone

\* No UnwindImpl call runs.
UnwindIdle ==
  /\ mem = MakeMem([f \in AllFrames |-> [link |-> 0, ret |-> 0]], Unmapped)
  /\ bld = [ndebug |-> FALSE, ovf |-> TRUE]
  /\ arg = [max_depth |-> 0, skip_count |-> 0, IS_STACK_FRAMES |-> FALSE,
            IS_WITH_CONTEXT |-> FALSE, ucp |-> NullContext,
            want_dropped |-> FALSE]
  /\ SetLocalsInit([Entry(arg, CacheInit) EXCEPT !.pc = "idle"])
  /\ call = 1
  /\ prev = [arg |-> arg, n |-> 0, result |-> <<>>, sizes |-> <<>>,
             dropped |-> -1]

\* Nor is the VDSO looked at.
MainIdle == UnwindIdle /\ vdso = NoVdso

mainVars == <<mem, vdso, bld, arg, pc, fp, n, skip_count, result, sizes,
              min_dropped_frames, cache, nsf, seen, revisit, steps, frames,
              call, prev>>

\* Values of the signed registers EBP and ESP: small addresses, addresses
\* kMaxFrameBytes and one unit more above them, and addresses on both sides
\* of INT_MAX.
RegValues ==
  {0, 16, 32, 16 + MaxFrame, 18 + MaxFrame, IntHalf - 16, 16 - IntHalf, -16}

\* The contexts GetFP is given: none, or one with any registers.
GetFPContexts ==
  {NullContext} \cup [null : {FALSE}, ebp : RegValues, esp : RegValues,
                      eip : {0}]

InitGetFP ==
  /\ MainIdle
  /\ vuc \in GetFPContexts
  /\ ovf \in BOOLEAN
  /\ ret = -1
  /\ DecoderIdle /\ ThreadsIdle

\* GetFP(vuc) returns.
GetFPCall ==
  /\ ret = -1
  /\ ret' = GetFP(vuc, ovf)
  /\ UNCHANGED <<mainVars, vuc, ovf, decoderVars, threadVars>>

SpecGetFP == InitGetFP /\ [][GetFPCall]_vars

\* C11: GetFP returns 0 without a context; with one, it returns the
\* frame-pointer register bp when bp >= sp and bp - sp <= kMaxFrameBytes, as
\* addresses, and the stack-pointer register sp in every other case.
C11_Original ==
  ret # -1
  => IF vuc.null THEN ret = 0
     ELSE LET bp == ToUintptr(vuc.ebp)
              sp == ToUintptr(vuc.esp)
          IN  IF bp >= sp /\ bp - sp <= MaxFrame THEN ret = bp ELSE ret = sp

\* ------------------------------------------------------------ decoder alone

\* The instructions the code at addr is made of, with their bytes.
Encoding ==
  [push_ebp |-> <<85>>, push_ecx |-> <<81>>,
   mov_ecx_ebp |-> <<137, 205>>, mov_edx_ebp |-> <<137, 213>>,
   mov_esp_ebp |-> <<137, 229>>,
   sysenter |-> <<15, 52>>, syscall |-> <<15, 5>>, int80 |-> <<205, 128>>,
   ret |-> <<195>>, ud2 |-> <<15, 11>>, int3 |-> <<205, 3>>]

InsnKinds == DOMAIN Encoding
PushKinds == {"push_ebp", "push_ecx"}
MovKinds == {"mov_ecx_ebp", "mov_edx_ebp"}
PadKinds == {"ret", "push_ebp", "mov_ecx_ebp"}

\* The longest list of instructions drawn after the pushes.
MaxInsns == 2

\* The instruction lists of length 0 .. k.
RECURSIVE InsnLists(_)
InsnLists(k) ==
  IF k = 0 THEN {<<>>}
  ELSE LET L == InsnLists(k - 1)
       IN  L \cup {Append(l, x) : l \in {m \in L : Len(m) = k - 1},
                                  x \in InsnKinds}

\* The instructions at addr: enough of them to cover the bytes read.
Program ==
  [i \in 1 .. npush |-> "push_ebp"] \o insns
    \o [i \in 1 .. kMaxBytes + 2 |-> pad]

\* The bytes of a list of instructions.
RECURSIVE Flatten(_)
Flatten(prog) ==
  IF prog = <<>> THEN <<>> ELSE Encoding[Head(prog)] \o Flatten(Tail(prog))

InitDecoder ==
  /\ MainIdle /\ GetFPIdle /\ ThreadsIdle
  /\ npush \in 0 .. kMaxBytes
  /\ insns \in InsnLists(MaxInsns)
  /\ pad \in PadKinds
  /\ cpi = [val |-> -1, assert |-> FALSE, hi |-> -1]

\* CountPushInstructions(addr) returns, or fails an assertion.
DecoderCall ==
  /\ cpi.val = -1
  /\ cpi' = CountPushInstructions(CodeBytes(Flatten(Program)))
  /\ UNCHANGED <<mainVars, getfpVars, threadVars, npush, insns, pad>>

SpecDecoder == InitDecoder /\ [][DecoderCall]_vars

\* What the instructions from prog[k] on, the first of them at offset off,
\* make of `pushes` pushes counted: the instructions of `skipped` are passed
\* over, a push is counted, a syscall entry ends the scan with the count,
\* mov %esp,%ebp and int $0x80 end it with 0 (int $0x80 after a push is a
\* violation), and any other instruction, or none of these within
\* kMaxBytes bytes, is a violation.
RECURSIVE Expect(_, _, _, _, _)
Expect(prog, k, off, pushes, skipped) ==
  IF off >= kMaxBytes THEN [val |-> 0, violation |-> TRUE]
  ELSE IF prog[k] \in PushKinds
       THEN Expect(prog, k + 1, off + 1, pushes + 1, skipped)
  ELSE IF prog[k] \in skipped
       THEN Expect(prog, k + 1, off + Len(Encoding[prog[k]]), pushes,
                   skipped)
  ELSE IF prog[k] = "mov_esp_ebp" THEN [val |-> 0, violation |-> FALSE]
  ELSE IF prog[k] \in {"sysenter", "syscall"}
       THEN [val |-> pushes, violation |-> FALSE]
  ELSE IF prog[k] = "int80" THEN [val |-> 0, violation |-> pushes # 0]
  ELSE [val |-> 0, violation |-> TRUE]

\* C12: CountPushInstructions returns the number of push instructions that
\* precede the syscall entry, and 0 when mov %esp,%ebp or int $0x80 comes
\* first; the documented SYSENTER, SYSCALL and int $0x80 sequences yield 0,
\* 1 and 0.
C12_CountsPushes ==
  /\ cpi.val # -1 /\ ~Expect(Program, 1, 0, 0, MovKinds).violation
     => /\ cpi.val = Expect(Program, 1, 0, 0, MovKinds).val
        /\ ~cpi.assert
  /\ CountPushInstructions(SysenterCode).val = 0
  /\ ~CountPushInstructions(SysenterCode).assert
  /\ CountPushInstructions(SyscallCode).val = 1
  /\ ~CountPushInstructions(SyscallCode).assert
  /\ CountPushInstructions(Int80Code).val = 0
  /\ ~CountPushInstructions(Int80Code).assert

\* C12 witness: pushes, a register move and a syscall entry were decoded.
C12_Witness ==
  /\ cpi.val = 2 /\ ~cpi.assert /\ npush = 2
  /\ Len(insns) = 2 /\ insns[1] \in MovKinds /\ insns[2] = "syscall"

\* C13 as stated: an input with an instruction other than mov %esp,%ebp, a
\* syscall entry, a push, or int $0x80 before any push, among those
\* scanned, or with none of the terminal ones within kMaxBytes bytes, fails
\* an assertion.
C13_Original ==
  (cpi.val # -1 /\ Expect(Program, 1, 0, 0, {}).violation) => cpi.assert

\* C13 amended: the same, a mov between registers (0x89 and a byte other
\* than 0xE5) being a recognised instruction too, passed over.
C13_UnexpectedAsserts ==
  (cpi.val # -1 /\ Expect(Program, 1, 0, 0, MovKinds).violation)
  => cpi.assert

\* C13 witness: after nine pushes a register move uses up the budget, and
\* the assertion fails.
C13_Witness ==
  /\ cpi.val # -1 /\ cpi.assert /\ npush = 9
  /\ insns = <<"mov_ecx_ebp", "syscall">>

\* C13 witness of the unexpected byte: the assertion fails on a ret.
C13_WitnessByte ==
  /\ cpi.val # -1 /\ cpi.assert /\ npush = 1 /\ insns = <<"ret">>

\* C20: CountPushInstructions reads no byte beyond offset kMaxBytes.
C20_ReadsWithinBudget == cpi.hi <= kMaxBytes

\* C20 witness: a two-byte instruction at the last scanned offset made the
\* byte at offset kMaxBytes read.
C20_Witness ==
  /\ cpi.val # -1 /\ cpi.hi = kMaxBytes /\ npush = kMaxBytes - 1
  /\ insns # <<>> /\ Len(Encoding[insns[1]]) = 2

\* ------------------------------------------------------------ threads

\* The threads that call NextStackFrame with a signal context, and the
\* calls each makes.
NThreads == 2
MaxCalls == 2
Threads == 1 .. NThreads

\* A static not read in the running call.
Unread == -2

\* A VDSO without the __kernel_vsyscall symbol.
VdsoBroken == [VdsoWith(SyscallCode) EXCEPT !.vsys = 0]

InitThreads ==
  /\ UnwindIdle /\ GetFPIdle /\ DecoderIdle
  /\ vdso \in {NoVdso, VdsoWith(SyscallCode), VdsoWith(SysenterCode),
               VdsoBroken}
  /\ tpc = [t \in Threads |-> "idle"]
  /\ tobs = [t \in Threads |->
               [test |-> Unread, np |-> Unread, sigret |-> Unread,
                vsys |-> Unread]]
  /\ pend = [t \in Threads |-> {}]
  /\ ncalls = [t \in Threads |-> 0]
  /\ lookups = 0 /\ counts = 0

\* What the threads leave alone.
threadFixed == <<mem, vdso, bld, arg, pc, fp, n, skip_count, result, sizes,
                 min_dropped_frames, nsf, seen, revisit, steps, frames,
                 call, prev, getfpVars, decoderVars>>

\* The process has not aborted.
Alive == \A u \in Threads : tpc[u] # "abort"

\* Thread t calls NextStackFrame<*, true> with a context.
TEnter(t) ==
  /\ Alive /\ tpc[t] = "idle" /\ ncalls[t] < MaxCalls
  /\ ncalls' = [ncalls EXCEPT ![t] = @ + 1]
  /\ tobs' = [tobs EXCEPT ![t] = [test |-> Unread, np |-> Unread,
                                  sigret |-> Unread, vsys |-> Unread]]
  /\ tpc' = [tpc EXCEPT ![t] = "test"]
  /\ UNCHANGED <<threadFixed, cache, pend, lookups, counts>>

\* if (num_push_instructions == -1)
TTest(t) ==
  /\ Alive /\ tpc[t] = "test"
  /\ tobs' = [tobs EXCEPT ![t].test = cache.num_push]
  /\ tpc' = [tpc EXCEPT ![t] = IF cache.num_push = -1 THEN "init"
                                ELSE "use"]
  /\ UNCHANGED <<threadFixed, cache, pend, ncalls, lookups, counts>>

\* The body of the if up to the assignments: the VDSO is looked at, the
\* symbols looked up and the pushes counted; the assignments it leads to
\* are still to be made.
TInit(t) ==
  /\ Alive /\ tpc[t] = "init"
  /\ LET r == InitTrampolineCache(CacheInit, vdso)
         found == vdso.present /\ vdso.sigret # 0 /\ vdso.vsys # 0
     IN  /\ lookups' = IF vdso.present THEN lookups + 1 ELSE lookups
         /\ counts' = IF found THEN counts + 1 ELSE counts
         /\ IF r.assert /\ ~bld.ndebug
            THEN /\ tpc' = [tpc EXCEPT ![t] = "abort"]
                 /\ pend' = pend
            ELSE /\ tpc' = [tpc EXCEPT ![t] = "store"]
                 /\ pend' = [pend EXCEPT ![t] =
                      {<<"num_push", r.cache.num_push>>}
                      \cup IF found
                           THEN {<<"sigret", r.cache.sigret>>,
                                 <<"vsys", r.cache.vsys>>}
                           ELSE {}]
  /\ UNCHANGED <<threadFixed, cache, tobs, ncalls>>

\* One of the assignments to the statics takes effect.  The statics are
\* plain variables written and read by several threads with no
\* synchronisation, so the assignments of a thread take effect, for the
\* others, in any order.
TStore(t) ==
  /\ Alive /\ tpc[t] = "store"
  /\ \E w \in pend[t] :
       /\ cache' = [cache EXCEPT ![w[1]] = w[2]]
       /\ pend' = [pend EXCEPT ![t] = @ \ {w}]
       /\ tpc' = [tpc EXCEPT ![t] = IF pend[t] = {w} THEN "use"
                                     ELSE "store"]
  /\ UNCHANGED <<threadFixed, tobs, ncalls, lookups, counts>>

\* The test of the trampoline correction reads the statics one by one.
TUse(t) ==
  /\ Alive
  /\ \/ /\ tpc[t] = "use"
        /\ tobs' = [tobs EXCEPT ![t].np = cache.num_push]
        /\ tpc' = [tpc EXCEPT ![t] = IF cache.num_push = 0 THEN "idle"
                                      ELSE "use_sigret"]
     \/ /\ tpc[t] = "use_sigret"
        /\ tobs' = [tobs EXCEPT ![t].sigret = cache.sigret]
        /\ tpc' = [tpc EXCEPT ![t] = IF cache.sigret = 0 THEN "idle"
                                      ELSE "use_vsys"]
     \/ /\ tpc[t] = "use_vsys"
        /\ tobs' = [tobs EXCEPT ![t].vsys = cache.vsys]
        /\ tpc' = [tpc EXCEPT ![t] = "idle"]
  /\ UNCHANGED <<threadFixed, cache, pend, ncalls, lookups, counts>>

NextThreads ==
  \E t \in Threads : TEnter(t) \/ TTest(t) \/ TInit(t) \/ TStore(t) \/ TUse(t)

SpecThreads == InitThreads /\ [][NextThreads]_vars

\* C14: the VDSO symbols are looked up, and CountPushInstructions is
\* executed, at most once in the process.
C14_Original == lookups <= 1 /\ counts <= 1

\* The statics once initialised.
FinalCache == InitTrampolineCache(CacheInit, vdso).cache

\* C15: a thread that read num_push_instructions as other than -1 reads the
\* final values of the two addresses afterwards.
C15_Original ==
  \A t \in Threads :
    tobs[t].test \notin {Unread, -1}
    => /\ tobs[t].sigret # Unread => tobs[t].sigret = FinalCache.sigret
       /\ tobs[t].vsys # Unread => tobs[t].vsys = FinalCache.vsys

\* ------------------------------------------------------------ null return address

\* The running call stands in the while loop on a frame whose
\* return-address slot reads as null.
AtNullReturn ==
  /\ pc = "loop" /\ LoopCond(fp, n, arg.max_depth)
  /\ CanDeref(fp + Word) /\ Load(mem, fp + Word) = 0

\* C16: the while loop of UnwindImpl ends on the first frame whose
\* return-address slot is null, without calling NextStackFrame on it and
\* without recording or skipping it, and no entry of result is null.
C16_NullReturnStops ==
  /\ [](\A i \in 1 .. Len(result) : result[i] # 0)
  /\ [][AtNullReturn
         => /\ pc' = "tail"
            /\ UNCHANGED <<fp, n, skip_count, result, sizes, nsf, steps,
                           frames, cache>>]_vars

\* The loop ended on a null return address below max_depth, frames recorded.
C16_Witness ==
  /\ pc = "tail" /\ fp # 0 /\ n >= 1 /\ n < arg.max_depth
  /\ CanDeref(fp + Word) /\ Load(mem, fp + Word) = 0
  /\ min_dropped_frames = -1

\* ------------------------------------------------------------ lax mode

\* C17: in lax mode every frame pointer NextStackFrame returned to the walk
\* is non-null, differs from the frame it was reached from, is
\* pointer-width aligned and is readable; so is every frame the walk stands
\* on after the first.
C17_LaxStepsProbed ==
  arg.IS_STACK_FRAMES
  => /\ \A st \in steps :
          /\ st[2] # 0 /\ st[2] # st[1]
          /\ st[2] % Word = 0
          /\ AddressIsReadable(st[2])
     /\ \A f \in seen \ {FrameAddress0} : AddressIsReadable(f)

\* A lax walk that took two steps, one of them to another stack, and
\* returned.
C17_Witness ==
  /\ arg.IS_STACK_FRAMES /\ pc = "done"
  /\ Cardinality(steps) >= 2
  /\ \E st \in steps : st[2] = FarFrame

\* ------------------------------------------------------------ context stack slot

\* reg_esp[num_push_instructions - 1]: the address of the stack slot the
\* trampoline correction reads in the running call.
SlotOfContext ==
  ToUintptr(arg.ucp.esp)
  + Word * (InitTrampolineCache(cache, vdso).cache.num_push - 1)

\* The pass of the while loop the running call is about to make calls
\* NextStackFrame, and the trampoline correction reads the slot.
ReadsSlot ==
  /\ pc = "loop" /\ LoopCond(fp, n, arg.max_depth)
  /\ CanDeref(fp) /\ CanDeref(fp + Word) /\ ~ReturnAddressIsNull(mem, fp)
  /\ TrampolineAt(fp)
  /\ ToUintptr(arg.ucp.esp) # 0 /\ ToUintptr(arg.ucp.esp) % Word = 0

\* C18: the trampoline correction reads the slot at the context's stack
\* pointer only when the slot's address is readable, and the read does not
\* fault.
C18_Original ==
  [][(ReadsSlot /\ nsf' = nsf + 1)
     => (AddressIsReadable(SlotOfContext) /\ pc' # "fault")]_vars

\* ------------------------------------------------------------ termination

\* max(skip_count, 0) + max_depth, of the arguments of the running call.
MainLoopBound ==
  (IF arg.skip_count > 0 THEN arg.skip_count ELSE 0) + arg.max_depth

\* The while loop calls NextStackFrame at most MainLoopBound times, the for
\* loop at most kMaxUnwind times.
StepsBounded ==
  /\ pc \in {"loop", "tail"} => nsf <= MainLoopBound
  /\ nsf <= MainLoopBound + kMaxUnwind
  /\ min_dropped_frames <= kMaxUnwind

\* Every pass of the while loop that does not end it is one more
\* NextStackFrame invocation, and the code after the while loop ends the
\* call.
LoopsProgress ==
  /\ (pc = "loop" /\ pc' = "loop") => nsf' = nsf + 1
  /\ pc = "tail" => pc' \in {"done", "fault", "abort"}

C19_WitnessCycle == pc = "done" /\ revisit

====
